---- MODULE Spec2Model ----
(***************************************************************************)
(* A model of camelot.py: the per-key RateLimit budget, the responses      *)
(* table used as a tamper log, and the request handler proxy_completions / *)
(* handle_response, one step per stretch of code between two awaits.       *)
(*                                                                         *)
(* Time is the value of time.time() in whole seconds.  RateLimit.tokens is *)
(* a float in the source; here it is kept exactly, as an integer number of *)
(* 1/3600 tokens, so that time_passed * (max_tokens / 3600) is an integer. *)
(***************************************************************************)
EXTENDS Integers, Sequences, FiniteSets, TLC

\* ------------------------------------------------------------------------
\* Program constants
\* ------------------------------------------------------------------------

\* RateLimit.max_tokens, the dataclass default every key is built with.
max_tokens == 50000

\* RateLimit.max_requests, the dataclass default every key is built with.
max_requests == 60

\* Seconds per hour: the divisor of the token refill rate in update(), and
\* the unit in which tokens are stored here (1 token = Hour units).
Hour == 3600

\* Seconds per minute: the divisor of the request refill in update().
Minute == 60

\* token_count % 100 == 0 triggers a usage log line while draining.
LogEvery == 100

\* ------------------------------------------------------------------------
\* Bounds of the model
\* ------------------------------------------------------------------------

\* The clock advances in steps of Tick seconds ...
Tick == 30

\* ... up to MaxTime seconds while requests are served,
MaxTime == 30

\* and up to MaxElapsed seconds under direct calls (SpecRateLimit).
MaxElapsed == 90

\* Number of consume calls made directly on RateLimit objects (SpecRateLimit).
MaxCalls == 3

\* An upstream stream delivers at most MaxChunks chunks.
MaxChunks == 5

\* ... of which at most MaxEmpty carry no content.
MaxEmpty == 1

\* A key that is nearly spent starts with FewTokens whole tokens.
FewTokens == 3

\* A run serves a request and one that follows it.
Rounds == {1, 2}

\* Two of the provisioned keys (API_KEYS) and a key that is not provisioned.
Keys == {"sk-rubber-duck", "sk-tea-taster"}
BadKey == "sk-not-issued"

Min(a, b) == IF a <= b THEN a ELSE b

\* ------------------------------------------------------------------------
\* class RateLimit.  A RateLimit object is a record
\*   [tokens, requests, last_update]; every method takes the object and the
\* value t of time.time() and returns the object after the call.
\* ------------------------------------------------------------------------

\* RateLimit.__post_init__ with last_update = time.time() = t
NewRateLimit(t) ==
    [tokens |-> max_tokens * Hour, requests |-> max_requests, last_update |-> t]

\* RateLimit.update
update(rl, t) ==
    LET time_passed   == t - rl.last_update
        tokens_to_add == time_passed * max_tokens    \* in 1/Hour tokens
    IN  [tokens      |-> Min(max_tokens * Hour, rl.tokens + tokens_to_add),
         requests    |-> Min(max_requests, rl.requests + (time_passed \div Minute)),
         last_update |-> t]

\* RateLimit.check_and_update_request
check_and_update_request(rl, t) ==
    LET u == update(rl, t)
    IN  IF u.requests <= 0
        THEN [ok |-> FALSE, rl |-> u]
        ELSE [ok |-> TRUE,  rl |-> [u EXCEPT !.requests = @ - 1]]

\* variant: the budget is debited without the tokens < n test
check_and_update_tokens_unguarded(rl, n, t) ==
    LET u == update(rl, t)
    IN  [ok |-> TRUE, rl |-> [u EXCEPT !.tokens = @ - n * Hour]]

\* variant: the test is made and the debit left out
check_and_update_tokens_free(rl, n, t) ==
    LET u == update(rl, t)
    IN  [ok |-> u.tokens >= n * Hour, rl |-> u]

\* RateLimit.check_and_update_tokens
check_and_update_tokens(rl, n, t) ==
    LET u == update(rl, t)
    IN  IF u.tokens < n * Hour
        THEN [ok |-> FALSE, rl |-> u]
        ELSE [ok |-> TRUE,  rl |-> [u EXCEPT !.tokens = @ - n * Hour]]

\* variant: only a negative budget counts as exhausted
is_rate_limited_strict(rl, t) ==
    LET u == update(rl, t)
    IN  [ok |-> (u.tokens < 0 \/ u.requests < 0), rl |-> u]

\* RateLimit.is_rate_limited
is_rate_limited(rl, t) ==
    LET u == update(rl, t)
    IN  [ok |-> (u.tokens <= 0 \/ u.requests <= 0), rl |-> u]

\* variant: the remaining tokens are reported less the token that the first
\* chunk of the response will cost
get_rate_limit_headers_ahead(rl, t) ==
    LET u == update(rl, t)
    IN  [headers |->
            [limit_requests     |-> max_requests,
             limit_tokens       |-> max_tokens,
             remaining_requests |-> u.requests,
             remaining_tokens   |-> (u.tokens \div Hour) - 1,
             reset_requests     |-> Minute - ((t - u.last_update) % Minute),
             reset_tokens       |-> Hour - (t - u.last_update)],
         rl |-> u]

\* RateLimit.get_rate_limit_headers; int(self.tokens) truncates, and the two
\* later readings of time.time() fall in the same second t.
get_rate_limit_headers(rl, t) ==
    LET u == update(rl, t)
    IN  [headers |->
            [limit_requests     |-> max_requests,
             limit_tokens       |-> max_tokens,
             remaining_requests |-> u.requests,
             remaining_tokens   |-> u.tokens \div Hour,
             reset_requests     |-> Minute - ((t - u.last_update) % Minute),
             reset_tokens       |-> Hour - (t - u.last_update)],
         rl |-> u]

\* RateLimit.log_token_usage: refills, then writes a log line
log_token_usage(rl, t) == update(rl, t)

\* ------------------------------------------------------------------------
\* Data: personas, messages and their serialisation
\* ------------------------------------------------------------------------

\* Two of the entries of FAKE_MODELS, prompts abridged.
Personas == {"galahad", "gawain"}

FAKE_MODELS ==
    [p \in Personas |->
        IF p = "galahad"
        THEN [real_model    |-> "ft:gpt-4o-mini-2024-07-18:espr-fabric:camelot-galahad1:9r70eNIC",
              system_prompt |-> "You are now embodying the character of Sir Galahad"]
        ELSE [real_model    |-> "ft:gpt-4o-mini-2024-07-18:espr-fabric:camelot-gawain:9r8ESsot",
              system_prompt |-> "You are Sir Gawain the Courteous"]]

\* A message is a JSON object as Python parses it: its (key, value) pairs in
\* the order the text gave them.
Msg(role, content)    == << <<"role", role>>, <<"content", content>> >>
MsgRev(role, content) == << <<"content", content>>, <<"role", role>> >>

\* message["role"], message["content"]
Get(message, key) ==
    LET i == CHOOSE j \in 1..Len(message) : message[j][1] = key
    IN  message[i][2]

RECURSIVE Join(_, _)
\* sep.join(parts)
Join(parts, sep) ==
    IF Len(parts) = 0 THEN ""
    ELSE IF Len(parts) = 1 THEN parts[1]
    ELSE parts[1] \o sep \o Join(Tail(parts), sep)

\* json.dumps of one message with separators (",", ":"): the keys in the
\* order of the dict
DumpMessage(message) ==
    "{" \o Join([i \in 1..Len(message) |->
                    "\"" \o message[i][1] \o "\":\"" \o message[i][2] \o "\""], ",")
        \o "}"

\* json_dumps of a list of messages
json_dumps(messages) ==
    "[" \o Join([i \in 1..Len(messages) |-> DumpMessage(messages[i])], ",") \o "]"

\* The i-th content-bearing chunk of an upstream stream carries Content[i].
Content == <<"a", "b", "c", "d", "e", "f", "g", "h">>

\* ------------------------------------------------------------------------
\* The responses table
\* ------------------------------------------------------------------------

\* variant: the row is stored without the persona
add_response_any_model(table, api_key, model, response) ==
    table \cup {<<api_key, "", response>>}

\* variant: the primary key is (api_key, model), and a row in conflict with
\* the new one is replaced
add_response_replace(table, api_key, model, response) ==
    {row \in table : ~(row[1] = api_key /\ row[2] = model)}
        \cup {<<api_key, model, response>>}

\* add_response: INSERT OR IGNORE under the primary key (api_key, model, response)
add_response(table, api_key, model, response) ==
    table \cup {<<api_key, model, response>>}

\* variant: the lookup ignores the conversation
check_response_any(table, api_key, model, response) ==
    \E row \in table : row[1] = api_key /\ row[2] = model

\* variant: the lookup ignores the key
check_response_any_key(table, api_key, model, response) ==
    \E row \in table : row[2] = model /\ row[3] = response

\* check_response
check_response(table, api_key, model, response) ==
    <<api_key, model, response>> \in table

RECURSIVE Validate(_, _, _, _, _)
\* The loop of proxy_completions over messages, from the i-th on: the length
\* of the local list response when the loop raises, or 0 when it runs through.
Validate(table, api_key, model, messages, i) ==
    IF i > Len(messages) THEN 0
    ELSE IF /\ Get(messages[i], "role") = "assistant"
            /\ ~check_response(table, api_key, model, json_dumps(SubSeq(messages, 1, i)))
         THEN i
         ELSE Validate(table, api_key, model, messages, i + 1)

\* ------------------------------------------------------------------------
\* State
\* ------------------------------------------------------------------------
VARIABLES
    now,        \* time.time(), in seconds
    API_KEYS,   \* api key -> RateLimit object
    responses,  \* rows (api_key, model, response) of the responses table
    req,        \* request slot -> the state of the handler serving it
    transcripts,\* the conversations clients hold from the requests served
    served,     \* number of requests that came in
    mark,       \* per key: the budget and time of the latest successful consume
    calls       \* consume calls made directly on RateLimit objects

vars == <<now, API_KEYS, responses, req, transcripts, served, mark, calls>>


\* The handlers that may run at a time.  A slot serves one request after
\* the other.
Reqs == {1}

NoHeaders ==
    [limit_requests |-> 0, limit_tokens |-> 0, remaining_requests |-> 0,
     remaining_tokens |-> 0, reset_requests |-> 0, reset_tokens |-> 0]

NoCall == [opened |-> FALSE, model |-> "", messages |-> <<>>]

\* Of the response that preceded a request: its key, whether it carried the
\* rate-limit headers, the remaining tokens they reported, the chunks the
\* request was charged for, and when its budget was evaluated.
NoBefore ==
    [api_key |-> "", has_headers |-> FALSE, remaining |-> 0, charged |-> 0, t_eval |-> 0]

Before(rec) ==
    IF ~rec.has_headers THEN NoBefore
    ELSE [api_key |-> rec.api_key, has_headers |-> TRUE,
          remaining |-> rec.headers.remaining_tokens, charged |-> rec.debited,
          t_eval |-> rec.t_eval]

\* The handler's state before it starts.  The fields below the line record
\* what happened, for the properties; the handler never reads them.
IdleReq ==
    [pc            |-> "idle",
     api_key       |-> "",
     model         |-> "",
     messages      |-> <<>>,     \* the list object body["messages"]
     is_stream     |-> FALSE,
     checked       |-> 0,        \* len(response) when the validation loop raised
     upstream      |-> NoCall,   \* the arguments of chat.completions.create
     chunks        |-> <<>>,
     token_count   |-> 0,
     finish_reason |-> "stop",
     headers       |-> NoHeaders,
     out           |-> <<>>,     \* frames written to the StreamResponse
     status        |-> 0,        \* status of the response returned
     error         |-> "",       \* error.type of the response returned
     reply         |-> [content |-> "", finish_reason |-> ""],
     has_headers   |-> FALSE,    \* the response carries the rate-limit headers
     gone          |-> FALSE,    \* the client closed the connection
     \* ----------------------------------------------------------------
     sent          |-> <<>>,     \* the message list as the client sent it
     evaluated     |-> FALSE,    \* handle_response took the rate-limit decision
     seen_tokens   |-> 0,        \* the budget that decision saw, after its refill
     seen_requests |-> 0,
     t_eval        |-> 0,        \* when it was taken
     pulled        |-> 0,        \* upstream chunks consumed
     debited       |-> 0,        \* tokens charged to the key by this request
     inserted      |-> 0,        \* add_response calls made by this request
     failed_after  |-> 0,        \* content chunks forwarded before an exception
     before        |-> NoBefore] \* the response the slot gave before this one

\* variant: every chunk forwarded is marked "length"
ChunkFrame_marked(content, finish_reason) ==
    [kind |-> "chunk", content |-> content, finish_reason |-> "length"]

\* The data frames of an event stream
ChunkFrame(content, finish_reason) ==
    [kind |-> "chunk", content |-> content, finish_reason |-> finish_reason]
DoneFrame == [kind |-> "[DONE]", content |-> "", finish_reason |-> ""]

\* Exceptions of the upstream client: an APIError with a status code, or
\* anything else.
Exceptions ==
    {[kind |-> "APIError", status_code |-> 429],
     [kind |-> "APIError", status_code |-> 503],
     [kind |-> "Exception", status_code |-> 0]}

\* What StreamResponse.write raises once the client closed the connection:
\* a ConnectionResetError, which is no APIError.
ConnectionReset == [kind |-> "Exception", status_code |-> 0]

\* A handler returning an error response
Fail(rec, status, error) ==
    [rec EXCEPT !.pc = "done", !.status = status, !.error = error]

\* The except clauses of proxy_completions for an exception e raised below
Raise(rec, e) ==
    IF e.kind = "APIError"
    THEN Fail(rec, e.status_code, "api_error_text")
    ELSE Fail(rec, 500, "internal_server_error")

\* ------------------------------------------------------------------------
\* What clients send
\* ------------------------------------------------------------------------

\* "".join(parts)
Concat(parts) == Join(parts, "")

RECURSIVE StreamedContent(_)
\* The content of the chunk frames a stream carried, in order
StreamedContent(frames) ==
    IF Len(frames) = 0 THEN ""
    ELSE (IF frames[1].kind = "chunk" THEN frames[1].content ELSE "")
            \o StreamedContent(Tail(frames))

\* The assistant text the client of a finished request holds
Delivered(rec) ==
    IF rec.is_stream THEN StreamedContent(rec.out) ELSE rec.reply.content

\* Whether the client of a finished request received an assistant turn
HoldsTurn(rec) ==
    /\ rec.pc = "done"
    /\ rec.upstream.opened
    /\ \/ rec.is_stream /\ rec.evaluated /\ rec.status # 429
       \/ ~rec.is_stream /\ rec.status = 200 /\ rec.error = ""

Fresh  == << Msg("user", "Hello") >>
Forged == << Msg("user", "Hello"), Msg("assistant", "I yield"),
             Msg("user", "Go on"), Msg("assistant", "Gladly") >>

\* What that client holds: the request it made and the turn it received;
\* complete when the request ended with a 200 response.
Transcript(rec) ==
    [api_key |-> rec.api_key, model |-> rec.model, sent |-> rec.sent,
     turn |-> Delivered(rec), complete |-> rec.status = 200]

\* The transcripts held when the client of slot r writes its request
Held(r) ==
    transcripts \cup {Transcript(req[q]) : q \in {q \in Reqs \ {r} : HoldsTurn(req[q])}}

\* The message lists the client of slot r may send: a new conversation, one
\* with assistant turns of its own making, or a conversation held with the
\* turn received: as it is, continued, continued with a turn of the client's
\* making, or with the keys of the assistant message in the other order.
ClientLists(r) ==
    {Fresh, Forged}
    \cup UNION { LET held == Append(h.sent, Msg("assistant", h.turn))
                 IN  { held,
                       held \o <<Msg("user", "Go on")>>,
                       held \o <<Msg("user", "Go on"), Msg("assistant", "Gladly")>>,
                       Append(h.sent, MsgRev("assistant", h.turn)) }
                 : h \in Held(r) }

\* The outcomes of request.json()
Bodies(r) ==
    {[json |-> FALSE, model |-> "", is_list |-> FALSE, messages |-> <<>>, stream |-> FALSE]}
    \cup {[json |-> TRUE, model |-> m, is_list |-> TRUE, messages |-> <<>>, stream |-> FALSE]
            : m \in {"", "gpt-4o-mini"}}
    \cup {[json |-> TRUE, model |-> "galahad", is_list |-> FALSE, messages |-> <<>>, stream |-> FALSE]}
    \cup {[json |-> TRUE, model |-> m, is_list |-> TRUE, messages |-> l, stream |-> st]
            : m \in Personas, l \in ClientLists(r), st \in BOOLEAN}


\* ------------------------------------------------------------------------
\* proxy_completions and handle_response
\* ------------------------------------------------------------------------

\* variant: a key that is not provisioned is answered 401
Arrive_401(r) ==
    /\ served + 1 \in Rounds
    /\ \A q \in Reqs : req[q].pc \in {"idle", "done"}
    /\ served' = served + 1
    /\ transcripts' = IF HoldsTurn(req[r])
                      THEN transcripts \cup {Transcript(req[r])} ELSE transcripts
    /\ \E key \in Keys \cup {BadKey} :
         LET new == [IdleReq EXCEPT !.api_key = key, !.before = Before(req[r])]
         IN  req' = [req EXCEPT ![r] =
                        IF key \notin DOMAIN API_KEYS
                        THEN Fail(new, 401, "authentication_error")
                        ELSE [new EXCEPT !.pc = "body"]]
    /\ UNCHANGED <<now, API_KEYS, responses, mark, calls>>

\* A request comes in: the key is read from the Authorization header and
\* looked up; the handler then awaits the body.
Arrive(r) ==
    /\ served + 1 \in Rounds
    /\ \A q \in Reqs : req[q].pc \in {"idle", "done"}
    /\ served' = served + 1
    /\ transcripts' = IF HoldsTurn(req[r])
                      THEN transcripts \cup {Transcript(req[r])} ELSE transcripts
    /\ \E key \in Keys \cup {BadKey} :
         LET new == [IdleReq EXCEPT !.api_key = key, !.before = Before(req[r])]
         IN  req' = [req EXCEPT ![r] =
                        IF key \notin DOMAIN API_KEYS
                        THEN Fail(new, 400, "invalid_request_error")
                        ELSE [new EXCEPT !.pc = "body"]]
    /\ UNCHANGED <<now, API_KEYS, responses, mark, calls>>

\* variant: the upstream call is made with the model name the client gave
Dispatch_client_model(rec, b) ==
    [rec EXCEPT !.pc = "create", !.model = b.model, !.messages = b.messages,
                !.sent = b.messages, !.is_stream = b.stream,
                !.upstream =
                    [opened   |-> TRUE,
                     model    |-> b.model,
                     messages |-> <<Msg("system", FAKE_MODELS[b.model].system_prompt)>>
                                     \o b.messages]]

\* variant: handle_response is handed the list with the system prompt
Dispatch_full(rec, b) ==
    [rec EXCEPT !.pc = "create", !.model = b.model,
                !.messages = <<Msg("system", FAKE_MODELS[b.model].system_prompt)>>
                                \o b.messages,
                !.sent = b.messages, !.is_stream = b.stream,
                !.upstream =
                    [opened   |-> TRUE,
                     model    |-> FAKE_MODELS[b.model].real_model,
                     messages |-> <<Msg("system", FAKE_MODELS[b.model].system_prompt)>>
                                     \o b.messages]]

\* The handler's state after the model, the messages and the history were
\* accepted and chat.completions.create was called
Dispatch(rec, b) ==
    [rec EXCEPT !.pc = "create", !.model = b.model, !.messages = b.messages,
                !.sent = b.messages, !.is_stream = b.stream,
                !.upstream =
                    [opened   |-> TRUE,
                     model    |-> FAKE_MODELS[b.model].real_model,
                     messages |-> <<Msg("system", FAKE_MODELS[b.model].system_prompt)>>
                                     \o b.messages]]

\* request.json() returns or raises; the model and the messages are checked,
\* the history is validated, and the upstream call is issued.
ReadBody(r) ==
    /\ req[r].pc = "body"
    /\ \E b \in Bodies(r) :
         LET rec == req[r]
             bad == Validate(responses, rec.api_key, b.model, b.messages, 1)
         IN  req' = [req EXCEPT ![r] =
                IF ~b.json \/ b.model \notin DOMAIN FAKE_MODELS \/ ~b.is_list
                THEN Fail(rec, 400, "invalid_request_error")
                ELSE IF bad # 0
                THEN Fail([rec EXCEPT !.model = b.model, !.messages = b.messages,
                                      !.sent = b.messages, !.checked = bad],
                          400, "invalid_request_error")
                ELSE Dispatch(rec, b)]
    /\ UNCHANGED <<now, API_KEYS, responses, transcripts, served, mark, calls>>

\* variant: the turn, empty so far, is logged on the way out of the handler
CreateFails_logging(r) ==
    /\ req[r].pc = "create"
    /\ \E e \in Exceptions : req' = [req EXCEPT ![r] = Raise(@, e)]
    /\ responses' = add_response(responses, req[r].api_key, req[r].model,
                        json_dumps(Append(req[r].messages, Msg("assistant", ""))))
    /\ UNCHANGED <<now, API_KEYS, transcripts, served, mark, calls>>

\* chat.completions.create raises
CreateFails(r) ==
    /\ req[r].pc = "create"
    /\ \E e \in Exceptions : req' = [req EXCEPT ![r] = Raise(@, e)]
    /\ UNCHANGED <<now, API_KEYS, responses, transcripts, served, mark, calls>>

\* chat.completions.create returns the stream; handle_response takes the
\* headers, decides on the rate limit and prepares the stream response.
CreateReturns(r) ==
    /\ req[r].pc = "create"
    /\ LET rec == req[r]
           h   == get_rate_limit_headers(API_KEYS[rec.api_key], now)
           l   == is_rate_limited(h.rl, now)
           saw == [rec EXCEPT !.headers = h.headers, !.evaluated = TRUE,
                              !.seen_tokens = l.rl.tokens,
                              !.seen_requests = l.rl.requests, !.t_eval = now]
       IN  /\ API_KEYS' = [API_KEYS EXCEPT ![rec.api_key] = l.rl]
           /\ req' = [req EXCEPT ![r] =
                        IF l.ok
                        THEN [Fail(saw, 429, "rate_limit_error") EXCEPT !.has_headers = TRUE]
                        ELSE [saw EXCEPT !.pc = "draining", !.has_headers = rec.is_stream]]
    /\ UNCHANGED <<now, responses, transcripts, served, mark, calls>>

\* variant: [DONE] is written whatever the finish reason
Closing_always(rec) == Append(rec.out, DoneFrame)

\* The frames written when the stream is closed (lines 824-827): [DONE],
\* unless the truncation wrote it already
Closing(rec) ==
    IF rec.finish_reason # "length" THEN Append(rec.out, DoneFrame) ELSE rec.out

\* Lines 816-838 on the handler state rec, the table and the key's budget:
\* the turn is assembled, appended and logged, and the response completed.
\* The write of [DONE] to a connection the client closed raises, after the
\* turn was logged.
Finish(rec, table, rl, t) ==
    LET complete_message == Concat(rec.chunks)
        messages == Append(rec.messages, Msg("assistant", complete_message))
    IN  [table |-> add_response(table, rec.api_key, rec.model, json_dumps(messages)),
         rl    |-> log_token_usage(rl, t),
         rec   |->
            IF rec.is_stream /\ rec.gone
            THEN Raise([rec EXCEPT !.messages = messages, !.inserted = @ + 1],
                       ConnectionReset)
            ELSE IF rec.is_stream
            THEN [rec EXCEPT !.pc = "done", !.messages = messages, !.status = 200,
                             !.inserted = @ + 1,
                             !.out = Closing(rec)]
            ELSE [rec EXCEPT !.pc = "done", !.messages = messages, !.status = 200,
                             !.inserted = @ + 1, !.has_headers = TRUE,
                             !.reply = [content       |-> complete_message,
                                        finish_reason |-> rec.finish_reason]]]

\* variant: the loop goes on after a chunk marked "length"
NextPc_on(reason) == "draining"

\* Where the loop goes after a turn (lines 811-814): out of it once the
\* finish reason is "length", else on to the next chunk
NextPc(reason) == IF reason = "length" THEN "finalizing" ELSE "draining"

\* variant: the frame is put before the frames written so far
Written_first(rec, frame) ==
    IF ~rec.is_stream THEN rec.out
    ELSE IF frame.finish_reason = "length"
         THEN Append(<<frame>> \o rec.out, DoneFrame)
         ELSE <<frame>> \o rec.out

\* The frames written to the stream response after a loop turn wrote the
\* chunk as frame (lines 802-805), and [DONE] after a chunk marked "length"
\* (lines 811-813)
Written(rec, frame) ==
    IF ~rec.is_stream THEN rec.out
    ELSE IF frame.finish_reason = "length"
         THEN Append(Append(rec.out, frame), DoneFrame)
         ELSE Append(rec.out, frame)

\* One turn of the loop for a chunk that carries content (lines 795-814),
\* given the outcome charge of check_and_update_tokens(1): the handler state
\* and the key's budget after it.  The chunk is charged and
\* appended before it is written; the write to a connection the client closed
\* raises, which ends the handler in the except clauses.
Relayed(rec, charge, t) ==
    LET content == Content[rec.token_count + 1]
        reason  == IF charge.ok THEN rec.finish_reason ELSE "length"
        frame   == ChunkFrame(content, IF charge.ok THEN "null" ELSE "length")
        count   == rec.token_count + 1
        lost    == rec.is_stream /\ rec.gone
    IN  [ok  |-> charge.ok,
         rl  |-> IF ~lost /\ count % LogEvery = 0
                 THEN log_token_usage(charge.rl, t) ELSE charge.rl,
         rec |-> IF lost
                 THEN Raise([rec EXCEPT
                                !.pulled = @ + 1,
                                !.finish_reason = reason,
                                !.chunks = Append(@, content),
                                !.debited = IF charge.ok THEN @ + 1 ELSE @],
                            ConnectionReset)
                 ELSE [rec EXCEPT
                    !.pulled = @ + 1,
                    !.finish_reason = reason,
                    !.chunks = Append(@, content),
                    !.token_count = count,
                    !.debited = IF charge.ok THEN @ + 1 ELSE @,
                    !.out = Written(rec, frame),
                    !.pc = NextPc(reason)]]

\* variant: the chunk is charged to the budget as the request found it when
\* it started, less what the request itself was charged since
Relay_stale(rec, rl, t) ==
    Relayed(rec,
            check_and_update_tokens(
                [rl EXCEPT !.tokens = rec.seen_tokens - rec.debited * Hour], 1, t),
            t)

\* One turn of the loop for a chunk that carries content, on the key's budget
Relay(rec, rl, t) == Relayed(rec, check_and_update_tokens(rl, 1, t), t)

\* The upstream delivers a chunk with content.  A streaming handler that
\* truncates awaits the write of [DONE] before it goes on; a batched one
\* goes on to log the turn at once.
DrainContent(r) ==
    /\ req[r].pc = "draining"
    /\ req[r].pulled < MaxChunks
    /\ LET rec == req[r]
           k   == rec.api_key
           got == Relay(rec, API_KEYS[k], now)
           fin == Finish(got.rec, responses, got.rl, now)
           end == got.rec.pc = "finalizing" /\ ~rec.is_stream
       IN  /\ req' = [req EXCEPT ![r] = IF end THEN fin.rec ELSE got.rec]
           /\ API_KEYS' = [API_KEYS EXCEPT ![k] = IF end THEN fin.rl ELSE got.rl]
           /\ responses' = IF end THEN fin.table ELSE responses
           /\ mark' = IF got.ok THEN [mark EXCEPT ![k] = got.rl] ELSE mark
    /\ UNCHANGED <<now, transcripts, served, calls>>

\* variant: the upstream has no end: it goes on delivering chunks without
\* content, which the count of pulled chunks folds onto two values
DrainEmpty_endless(r) ==
    /\ req[r].pc = "draining"
    /\ req[r].pulled <= MaxChunks
    /\ req' = [req EXCEPT ![r].pulled = IF @ > req[r].token_count
                                        THEN req[r].token_count
                                        ELSE req[r].token_count + 1]
    /\ UNCHANGED <<now, API_KEYS, responses, transcripts, served, mark, calls>>

\* The upstream delivers a chunk without content (a role or finish chunk).
DrainEmpty(r) ==
    /\ req[r].pc = "draining"
    /\ req[r].pulled < MaxChunks
    /\ req[r].pulled - req[r].token_count < MaxEmpty
    /\ req' = [req EXCEPT ![r].pulled = @ + 1]
    /\ UNCHANGED <<now, API_KEYS, responses, transcripts, served, mark, calls>>

\* The upstream raises while the handler waits for the next chunk.
DrainFails(r) ==
    /\ req[r].pc = "draining"
    /\ \E e \in Exceptions :
         req' = [req EXCEPT ![r] =
                    Raise([req[r] EXCEPT !.failed_after = Len(req[r].chunks)], e)]
    /\ UNCHANGED <<now, API_KEYS, responses, transcripts, served, mark, calls>>

\* The upstream stream ends: the turn is logged and the response completed.
DrainEnds(r) ==
    /\ req[r].pc = "draining"
    /\ LET k   == req[r].api_key
           fin == Finish(req[r], responses, API_KEYS[k], now)
       IN  /\ req' = [req EXCEPT ![r] = fin.rec]
           /\ API_KEYS' = [API_KEYS EXCEPT ![k] = fin.rl]
           /\ responses' = fin.table
    /\ UNCHANGED <<now, transcripts, served, mark, calls>>

\* A streaming handler that truncated logs the turn and closes the stream.
Finalize(r) ==
    /\ req[r].pc = "finalizing"
    /\ LET k   == req[r].api_key
           fin == Finish(req[r], responses, API_KEYS[k], now)
       IN  /\ req' = [req EXCEPT ![r] = fin.rec]
           /\ API_KEYS' = [API_KEYS EXCEPT ![k] = fin.rl]
           /\ responses' = fin.table
    /\ UNCHANGED <<now, transcripts, served, mark, calls>>

\* Time passes.
Tick_ ==
    /\ now + Tick <= MaxTime
    /\ now' = now + Tick
    /\ UNCHANGED <<API_KEYS, responses, req, transcripts, served, mark, calls>>

\* The budgets the first key may hold when the first request of a run comes
\* in: spent, half a token, FewTokens tokens, or full.  Every one is a budget
\* a key reaches from the full one by being charged for chunks and refilled.
\* The other keys are full.
InitBudgets == {0, Hour \div 2, FewTokens * Hour, max_tokens * Hour}

Init ==
    /\ now = 0
    /\ \E b \in InitBudgets :
         API_KEYS = [k \in Keys |->
                        IF k = "sk-rubber-duck"
                        THEN [NewRateLimit(0) EXCEPT !.tokens = b]
                        ELSE NewRateLimit(0)]
    /\ responses = {}
    /\ req = [r \in Reqs |-> IdleReq]
    /\ transcripts = {}
    /\ served = 0
    /\ mark = API_KEYS
    /\ calls = 0

Next ==
    \/ \E r \in Reqs : Arrive(r)
    \/ \E r \in Reqs : ReadBody(r)
    \/ \E r \in Reqs : CreateFails(r)
    \/ \E r \in Reqs : CreateReturns(r)
    \/ \E r \in Reqs : DrainContent(r)
    \/ \E r \in Reqs : DrainEmpty(r)
    \/ \E r \in Reqs : DrainFails(r)
    \/ \E r \in Reqs : DrainEnds(r)
    \/ \E r \in Reqs : Finalize(r)
    \/ Tick_

Spec == Init /\ [][Next]_vars


\* ------------------------------------------------------------------------
\* Handlers running concurrently: aiohttp runs one task per request on one
\* event loop, so a task runs alone from one await to the next.
\* ------------------------------------------------------------------------

\* The tasks that run at a time
Tasks == {1, 2}

\* Lines 672-704 for a request that opens a conversation under a provisioned
\* key: the key, the model and the messages pass, and the upstream call is
\* issued.  The tasks are numbered in the order their requests come in.
Accept(r) ==
    /\ req[r].pc = "idle"
    /\ \A q \in Tasks : q < r => req[q].pc # "idle"
    /\ \E key \in Keys, st \in BOOLEAN :
         LET b == [json |-> TRUE, model |-> "galahad", is_list |-> TRUE,
                   messages |-> Fresh, stream |-> st]
         IN  /\ key \in DOMAIN API_KEYS /\ b.model \in DOMAIN FAKE_MODELS
             /\ Validate(responses, key, b.model, b.messages, 1) = 0
             /\ req' = [req EXCEPT ![r] = Dispatch([IdleReq EXCEPT !.api_key = key], b)]
    /\ UNCHANGED <<now, API_KEYS, responses, transcripts, served, mark, calls>>

\* The client of a streaming request closes the connection while the handler
\* drains the upstream.  web.run_app leaves handler_cancellation off: the task
\* is not cancelled, and learns of it when it next writes.
Disconnect(r) ==
    /\ req[r].pc = "draining"
    /\ req[r].is_stream
    /\ ~req[r].gone
    /\ req' = [req EXCEPT ![r].gone = TRUE]
    /\ UNCHANGED <<now, API_KEYS, responses, transcripts, served, mark, calls>>

\* The budgets the first key may hold when the requests come in: FewTokens
\* tokens, which the two requests exhaust between them, or full.
SharedBudgets == {FewTokens * Hour, max_tokens * Hour}

\* The requests overlap within one reading of the clock: time does not pass.
InitConcurrent ==
    /\ now = 0
    /\ \E b \in SharedBudgets :
         API_KEYS = [k \in Keys |->
                        IF k = "sk-rubber-duck"
                        THEN [NewRateLimit(0) EXCEPT !.tokens = b]
                        ELSE NewRateLimit(0)]
    /\ responses = {}
    /\ req = [r \in Tasks |-> IdleReq]
    /\ transcripts = {}
    /\ served = 0
    /\ mark = API_KEYS
    /\ calls = 0

NextConcurrent ==
    \/ \E r \in Tasks : Accept(r)
    \/ \E r \in Tasks : CreateFails(r)
    \/ \E r \in Tasks : CreateReturns(r)
    \/ \E r \in Tasks : DrainContent(r)
    \/ \E r \in Tasks : DrainEmpty(r)
    \/ \E r \in Tasks : DrainFails(r)
    \/ \E r \in Tasks : DrainEnds(r)
    \/ \E r \in Tasks : Finalize(r)
    \/ \E r \in Tasks : Disconnect(r)

SpecConcurrent == InitConcurrent /\ [][NextConcurrent]_vars

\* ------------------------------------------------------------------------
\* One request from its arrival to its response.  The handler is a task that
\* is resumed whenever what it awaits is there: the upstream delivers a chunk,
\* ends or raises, and the client, which stays connected, takes what is
\* written.  The upstream stream is finite (MaxChunks).
\* ------------------------------------------------------------------------

\* A step of the handler of slot r past the acceptance of the request
Resume(r) ==
    \/ CreateFails(r)
    \/ CreateReturns(r)
    \/ DrainContent(r)
    \/ DrainEmpty(r)
    \/ DrainFails(r)
    \/ DrainEnds(r)
    \/ Finalize(r)

NextLive ==
    \/ \E r \in Reqs : Accept(r)
    \/ \E r \in Reqs : Resume(r)
    \/ Tick_

SpecLive == Init /\ [][NextLive]_vars /\ \A r \in Reqs : WF_vars(Resume(r))

\* ------------------------------------------------------------------------
\* The RateLimit objects under direct calls: any method, on any key, at any
\* time of a clock that does not go back.
\* ------------------------------------------------------------------------

\* The amounts check_and_update_tokens is called with: the one token of a
\* chunk, and a whole budget.
Amounts == {1, max_tokens}

CallUpdate(k) ==
    /\ API_KEYS' = [API_KEYS EXCEPT ![k] = update(@, now)]
    /\ UNCHANGED <<now, responses, req, transcripts, served, mark, calls>>

CallCheckRequest(k) ==
    /\ calls < MaxCalls
    /\ LET got == check_and_update_request(API_KEYS[k], now)
       IN  /\ API_KEYS' = [API_KEYS EXCEPT ![k] = got.rl]
           /\ mark' = IF got.ok THEN [mark EXCEPT ![k] = got.rl] ELSE mark
    /\ calls' = calls + 1
    /\ UNCHANGED <<now, responses, req, transcripts, served>>

CallCheckTokens(k) ==
    /\ calls < MaxCalls
    /\ \E n \in Amounts :
         LET got == check_and_update_tokens(API_KEYS[k], n, now)
         IN  /\ API_KEYS' = [API_KEYS EXCEPT ![k] = got.rl]
             /\ mark' = IF got.ok THEN [mark EXCEPT ![k] = got.rl] ELSE mark
    /\ calls' = calls + 1
    /\ UNCHANGED <<now, responses, req, transcripts, served>>

CallIsRateLimited(k) ==
    /\ API_KEYS' = [API_KEYS EXCEPT ![k] = is_rate_limited(@, now).rl]
    /\ UNCHANGED <<now, responses, req, transcripts, served, mark, calls>>

CallHeaders(k) ==
    /\ API_KEYS' = [API_KEYS EXCEPT ![k] = get_rate_limit_headers(@, now).rl]
    /\ UNCHANGED <<now, responses, req, transcripts, served, mark, calls>>

CallLogUsage(k) ==
    /\ API_KEYS' = [API_KEYS EXCEPT ![k] = log_token_usage(@, now)]
    /\ UNCHANGED <<now, responses, req, transcripts, served, mark, calls>>

Elapse ==
    /\ now + Tick <= MaxElapsed
    /\ now' = now + Tick
    /\ UNCHANGED <<API_KEYS, responses, req, transcripts, served, mark, calls>>

\* API_KEYS as the module builds it
InitRateLimit ==
    /\ now = 0
    /\ API_KEYS = [k \in Keys |-> NewRateLimit(0)]
    /\ responses = {}
    /\ req = [r \in Reqs |-> IdleReq]
    /\ transcripts = {}
    /\ served = 0
    /\ mark = API_KEYS
    /\ calls = 0

NextRateLimit ==
    \/ \E k \in Keys : CallUpdate(k)
    \/ \E k \in Keys : CallCheckRequest(k)
    \/ \E k \in Keys : CallCheckTokens(k)
    \/ \E k \in Keys : CallIsRateLimited(k)
    \/ \E k \in Keys : CallHeaders(k)
    \/ \E k \in Keys : CallLogUsage(k)
    \/ Elapse

SpecRateLimit == InitRateLimit /\ [][NextRateLimit]_vars

\* ------------------------------------------------------------------------
\* Properties
\* ------------------------------------------------------------------------

\* C4: every key's budget stays within its limits, 0 <= tokens <= max_tokens
\* and 0 <= requests <= max_requests, whatever methods are called on it and
\* whenever; check_and_update_tokens never leaves tokens below 0.
C4_BudgetWithinLimits ==
    \A k \in Keys :
        /\ 0 <= API_KEYS[k].tokens
        /\ API_KEYS[k].tokens <= max_tokens * Hour
        /\ 0 <= API_KEYS[k].requests
        /\ API_KEYS[k].requests <= max_requests

\* C4 witness: a key was charged its whole budget and, some calls and some
\* time later, holds a part of it again.
C4_Witness ==
    \E k \in Keys :
        /\ calls = MaxCalls
        /\ API_KEYS[k].tokens > 0
        /\ API_KEYS[k].tokens < max_tokens * Hour
        /\ mark[k].tokens = 0

\* C5: over an interval without a successful consume, the budget at the end
\* is the budget at the start refilled for the whole length of the interval,
\* however many refills fell inside it.
C5_RefillOverInterval ==
    \A k \in Keys :
        LET dt == API_KEYS[k].last_update - mark[k].last_update
        IN  /\ API_KEYS[k].tokens =
                    Min(max_tokens * Hour, mark[k].tokens + dt * max_tokens)
            /\ API_KEYS[k].requests =
                    Min(max_requests, mark[k].requests + (dt \div Minute))


\* The first k content chunks of an upstream stream, joined
FirstContent(k) == Concat(SubSeq(Content, 1, k))

\* The row logged for the conversation sent by a request and the turn text
LoggedRow(rec, text) ==
    <<rec.api_key, rec.model, json_dumps(Append(rec.sent, Msg("assistant", text)))>>

\* C1: a key that holds k = FewTokens tokens when the budget is evaluated,
\* no time passing, and an upstream that delivers more than k content chunks:
\* the first k chunks are forwarded as they came, then one chunk with
\* finish_reason "length", and the turn logged is the first k chunks joined.
C1_TruncationDeterminism ==
    \A r \in Reqs :
        LET rec == req[r]
            k   == FewTokens
        IN  (/\ rec.pc = "done" /\ rec.status = 200
             /\ rec.seen_tokens = k * Hour /\ now = rec.t_eval
             /\ rec.token_count > k)
            =>
            /\ rec.finish_reason = "length"
            /\ rec.messages = Append(rec.sent, Msg("assistant", FirstContent(k)))
            /\ LoggedRow(rec, FirstContent(k)) \in responses
            /\ rec.is_stream =>
                 /\ Len(rec.out) = k + 2
                 /\ \A i \in 1..k : rec.out[i] = ChunkFrame(Content[i], "null")
                 /\ rec.out[k + 1].kind = "chunk"
                 /\ rec.out[k + 1].finish_reason = "length"
                 /\ rec.out[k + 2] = DoneFrame

\* C2: the upstream call is never issued for a key that is exhausted: the
\* rate-limit decision comes before the call.
C2_NoUpstreamCallWhenExhausted ==
    [][\A r \in Reqs :
         (~req[r].upstream.opened /\ req'[r].upstream.opened)
         => ~is_rate_limited(API_KEYS[req'[r].api_key], now).ok]_vars

\* C3: a request whose key is exhausted when handle_response evaluates the
\* budget (tokens <= 0 or requests <= 0 after the refill) ends with 429,
\* rate_limit_error and the rate-limit headers; nothing was forwarded, no
\* upstream chunk consumed, no token charged and nothing logged.
C3_ExhaustedGets429 ==
    \A r \in Reqs :
        LET rec == req[r]
        IN  (rec.evaluated /\ (rec.seen_tokens <= 0 \/ rec.seen_requests <= 0))
            =>
            /\ rec.pc = "done" /\ rec.status = 429 /\ rec.error = "rate_limit_error"
            /\ rec.has_headers
            /\ rec.headers.limit_tokens = max_tokens
            /\ rec.headers.limit_requests = max_requests
            /\ rec.headers.remaining_tokens = 0
            /\ rec.out = <<>> /\ rec.chunks = <<>> /\ rec.pulled = 0
            /\ rec.debited = 0 /\ rec.inserted = 0
            /\ API_KEYS[rec.api_key].tokens >= rec.seen_tokens

\* C3 witness: the first request spent the key's budget, and the request
\* that followed it on that key was refused.
C3_Witness ==
    \E r \in Reqs :
        /\ req[r].status = 429 /\ req[r].error = "rate_limit_error"
        /\ req[r].evaluated /\ req[r].seen_tokens = 0
        /\ \E h \in transcripts : h.api_key = req[r].api_key /\ h.turn # ""

\* The positions of the assistant messages of a list whose prefix is not
\* logged for the key and persona
Unlogged(table, api_key, model, messages) ==
    {i \in 1..Len(messages) :
        /\ Get(messages[i], "role") = "assistant"
        /\ <<api_key, model, json_dumps(SubSeq(messages, 1, i))>> \notin table}

\* C6: under a valid key and persona, a message list with an assistant
\* message whose prefix is not logged for that key and persona is refused
\* with 400 invalid_request_error at the first such message, and no upstream
\* call is issued, no token charged and nothing logged.
C6_ForgedHistoryRejected ==
    [][\A r \in Reqs :
         LET rec == req'[r]
             bad == Unlogged(responses, rec.api_key, rec.model, rec.sent)
         IN  (req[r].pc = "body" /\ rec.pc # "body" /\ bad # {})
             =>
             /\ rec.pc = "done" /\ rec.status = 400
             /\ rec.error = "invalid_request_error"
             /\ \A i \in bad : rec.checked <= i
             /\ rec.checked \in bad
             /\ ~rec.upstream.opened
             /\ rec.debited = 0 /\ rec.inserted = 0
             /\ API_KEYS' = API_KEYS /\ responses' = responses]_vars

\* C6 witness: a conversation held from a served request, continued with a
\* turn the client made up, was refused at that turn, the fourth message.
C6_Witness ==
    \E r \in Reqs :
        /\ req[r].pc = "done" /\ req[r].status = 400 /\ req[r].checked = 4
        /\ req[r].sent # Forged

\* The message list continues the transcript h: the request, the turn
\* received, then messages that are not the assistant's
Continues(messages, h) ==
    LET n == Len(h.sent) + 1
    IN  /\ Len(messages) >= n
        /\ SubSeq(messages, 1, n) = Append(h.sent, Msg("assistant", h.turn))
        /\ \A i \in (n + 1)..Len(messages) : Get(messages[i], "role") # "assistant"

\* C7: after a request that completed with its turn, a request under the
\* same key and persona with the same messages, that turn and then messages
\* that are not the assistant's, passes validation.
C7_LoggedTurnValidates ==
    \A r \in Reqs : \A h \in transcripts :
        (/\ h.complete
         /\ req[r].api_key = h.api_key /\ req[r].model = h.model
         /\ Continues(req[r].sent, h))
        => (req[r].checked = 0 /\ req[r].upstream.opened)

\* C7 witness: such a request, continued with a user message, was dispatched.
C7_Witness ==
    \E r \in Reqs : \E h \in transcripts :
        /\ h.complete /\ h.turn # ""
        /\ req[r].api_key = h.api_key /\ req[r].model = h.model
        /\ Continues(req[r].sent, h) /\ Len(req[r].sent) = Len(h.sent) + 2
        /\ req[r].upstream.opened

\* C8: the upstream call of an accepted request is made with the persona's
\* upstream model, not the name the client gave, and with the persona's
\* system prompt followed by the client's messages as sent; logging the
\* turn later does not change it.
C8_PersonaSubstitution ==
    \A r \in Reqs :
        LET rec == req[r]
        IN  rec.upstream.opened =>
            /\ rec.model \in Personas
            /\ rec.upstream.model = FAKE_MODELS[rec.model].real_model
            /\ rec.upstream.model # rec.model
            /\ rec.upstream.messages =
                  <<Msg("system", FAKE_MODELS[rec.model].system_prompt)>> \o rec.sent

\* C8 witness: a request to gawain completed and its turn was appended to
\* the list of messages.
C8_Witness ==
    \E r \in Reqs :
        /\ req[r].upstream.opened /\ req[r].model = "gawain"
        /\ req[r].pc = "done" /\ req[r].status = 200
        /\ Len(req[r].messages) = Len(req[r].sent) + 1

\* C9: a request that ends in an error response before the draining starts
\* (a bad key, body, persona or history, a refused budget, a failed upstream
\* call) leaves the responses table as it was.
C9_FailureWritesNothing ==
    [][\A r \in Reqs :
         (/\ req[r].pc \in {"idle", "done", "body", "create"}
          /\ req'[r] # req[r]
          /\ req'[r].pc = "done")
         => (/\ req'[r].status # 200
             /\ responses' = responses
             /\ req'[r].inserted = 0)]_vars

\* C9 witness: with a turn logged by the first request, the upstream call of
\* the request that followed failed.
C9_Witness ==
    \E r \in Reqs :
        /\ req[r].pc = "done" /\ req[r].status = 500 /\ ~req[r].evaluated
        /\ req[r].upstream.opened
        /\ responses # {}

\* C10: when a streaming request fails while draining after content chunks
\* were forwarded, the turn made of the content forwarded is logged.
C10_PartialTurnLogged ==
    \A r \in Reqs :
        LET rec == req[r]
        IN  (/\ rec.pc = "done" /\ rec.status # 200
             /\ rec.is_stream /\ rec.failed_after >= 1)
            => LoggedRow(rec, StreamedContent(rec.out)) \in responses

\* C11: once the client of a streaming request has closed the connection
\* while the handler drains, the handler consumes no further upstream chunk
\* and inserts no row for the request.
C11_DisconnectStopsRelay ==
    [][\A r \in Tasks :
         req[r].gone =>
            /\ req'[r].pulled = req[r].pulled
            /\ req'[r].inserted = req[r].inserted
            /\ responses' = responses]_vars

\* The tokens charged to key k by task r, and by the two tasks together
ChargedBy(r, k) == IF req[r].api_key = k THEN req[r].debited ELSE 0
Charged(k) == ChargedBy(1, k) + ChargedBy(2, k)

\* The budgets key k may start with
StartBudgets(k) == IF k = "sk-rubber-duck" THEN SharedBudgets ELSE {max_tokens * Hour}

\* C12: with requests running concurrently and no time passing, the chunks
\* charged to a key by all its requests together are exactly what the key's
\* budget went down by, and never more than the budget it started with.
C12_SerializedConsumes ==
    \A k \in Keys :
        /\ API_KEYS[k].tokens >= 0
        /\ API_KEYS[k].tokens + Hour * Charged(k) \in StartBudgets(k)

\* C12 witness: two requests draining at once under one key were both
\* charged, and between them spent the key's budget.
C12_Witness ==
    /\ req[1].api_key = req[2].api_key
    /\ req[1].pc = "draining" /\ req[2].pc = "draining"
    /\ req[1].debited >= 1 /\ req[2].debited >= 1
    /\ API_KEYS[req[1].api_key].tokens = 0

\* The row a task has inserted: the messages with its turn appended
InsertedRow(rec) == <<rec.api_key, rec.model, json_dumps(rec.messages)>>

\* C13: an insert of a row the table holds already, from the same or from a
\* concurrent request, raises nothing and leaves the table as it was; a row
\* once inserted is found by check_response from then on, and no row ever
\* leaves the table.
C13_IdempotentInsert ==
    [][/\ responses \subseteq responses'
       /\ \A r \in Tasks :
            /\ req'[r].inserted > req[r].inserted =>
                  /\ req'[r].status = 200 \/ req[r].gone
                  /\ InsertedRow(req'[r]) \in responses =>  responses' = responses
            /\ req'[r].inserted >= 1 =>
                  check_response(responses', req'[r].api_key, req'[r].model,
                                 json_dumps(req'[r].messages))]_vars

\* C13 witness: two concurrent requests inserted the same row, and the table
\* holds it once.
C13_Witness ==
    /\ req[1].inserted = 1 /\ req[2].inserted = 1
    /\ req[1].status = 200 /\ req[2].status = 200
    /\ req[1].chunks # <<>>
    /\ InsertedRow(req[1]) = InsertedRow(req[2])
    /\ responses = {InsertedRow(req[1])}

\* C14: a response that carries the rate-limit headers (a stream once it is
\* prepared, a batched 200, a 429) reports 0 <= remaining <= limit for tokens and for requests, and
\* the 429 of a key whose tokens are spent reports 0 remaining tokens.
C14_HeaderBounds ==
    \A r \in Reqs :
        LET h == req[r].headers
        IN  req[r].has_headers =>
            /\ 0 <= h.remaining_tokens /\ h.remaining_tokens <= h.limit_tokens
            /\ 0 <= h.remaining_requests /\ h.remaining_requests <= h.limit_requests
            /\ (req[r].status = 429 /\ req[r].seen_tokens <= 0) => h.remaining_tokens = 0

\* C14 witness: after a request whose chunks spent the key's tokens, the 429
\* of the next request on the key carries headers with no tokens and all the
\* requests remaining.
C14_Witness ==
    \E r \in Reqs :
        /\ req[r].has_headers /\ req[r].status = 429
        /\ req[r].headers.remaining_tokens = 0
        /\ req[r].headers.remaining_requests = max_requests
        /\ \E h \in transcripts :
              h.api_key = req[r].api_key /\ h.turn = FirstContent(FewTokens + 1)

\* C15: of two requests in sequence under one key whose budgets are evaluated
\* with no time passing in between, the later response reports no more
\* remaining tokens than the earlier one, and fewer when the earlier request
\* was charged for a content chunk.
C15_HeaderMonotone ==
    \A r \in Reqs :
        LET rec == req[r]
            was == rec.before
        IN  (/\ rec.has_headers /\ was.has_headers
             /\ was.api_key = rec.api_key /\ was.t_eval = rec.t_eval)
            =>
            /\ rec.headers.remaining_tokens <= was.remaining
            /\ was.charged >= 1 => rec.headers.remaining_tokens < was.remaining

\* C15 witness: the earlier request was charged for chunks, and the later
\* response reports the remaining tokens lower by as many.
C15_Witness ==
    \E r \in Reqs :
        /\ req[r].has_headers /\ req[r].before.has_headers
        /\ req[r].before.api_key = req[r].api_key
        /\ req[r].before.t_eval = req[r].t_eval
        /\ req[r].before.charged >= 2
        /\ req[r].headers.remaining_tokens
              = req[r].before.remaining - req[r].before.charged

\* The chunk frames among the frames written, in the order written
ChunkFrames(rec) == SelectSeq(rec.out, LAMBDA f : f.kind = "chunk")

\* C16: the chunks a streaming request has written downstream are the
\* content-bearing chunks the upstream delivered to it, each once, as it came
\* and in the order of delivery, the truncating one included and last.
C16_ChunkOrder ==
    \A r \in Reqs :
        LET rec    == req[r]
            frames == ChunkFrames(rec)
        IN  rec.is_stream =>
            /\ Len(frames) = rec.token_count
            /\ \A i \in 1..Len(frames) :
                  /\ frames[i].content = Content[i]
                  /\ frames[i].finish_reason = "length"
                        => (i = Len(frames) /\ rec.finish_reason = "length")
            /\ Concat(rec.chunks) = StreamedContent(rec.out)

\* C16 witness: a stream that passed over a chunk without content, wrote
\* FewTokens chunks and then the truncating one.
C16_Witness ==
    \E r \in Reqs :
        /\ req[r].is_stream /\ req[r].pc = "done" /\ req[r].status = 200
        /\ req[r].pulled > req[r].token_count
        /\ Len(ChunkFrames(req[r])) = FewTokens + 1
        /\ ChunkFrames(req[r])[FewTokens + 1].finish_reason = "length"

\* The positions of [DONE] among the frames written
DonePositions(rec) == {i \in 1..Len(rec.out) : rec.out[i] = DoneFrame}

\* C17: a streaming response that was closed, after a stop or after a
\* truncation, holds [DONE] once, as its last frame; and no stream ever holds
\* a frame after [DONE].
C17_TerminalSentinel ==
    \A r \in Reqs :
        LET rec == req[r]
        IN  /\ (rec.is_stream /\ rec.pc = "done" /\ rec.status = 200)
                    => DonePositions(rec) = {Len(rec.out)}
            /\ DonePositions(rec) \subseteq {Len(rec.out)}

\* C17 witness: a stream truncated after chunks were written was closed.
C17_Witness ==
    \E r \in Reqs :
        /\ req[r].is_stream /\ req[r].pc = "done" /\ req[r].status = 200
        /\ req[r].finish_reason = "length"
        /\ Len(req[r].out) >= 3
        /\ req[r].inserted = 1

\* C18: a request under a key that is not provisioned is answered 400 with
\* invalid_request_error, as any other invalid request is; it opens no
\* upstream call, and changes no budget and no row of the table.
C18_UnknownKeyRefused ==
    [][\A r \in Reqs :
         (req'[r] # req[r] /\ req'[r].api_key \notin DOMAIN API_KEYS)
         =>
         /\ req'[r].pc = "done" /\ req'[r].status = 400
         /\ req'[r].error = "invalid_request_error"
         /\ ~req'[r].upstream.opened /\ ~req'[r].evaluated
         /\ req'[r].debited = 0 /\ req'[r].inserted = 0
         /\ API_KEYS' = API_KEYS /\ responses' = responses]_vars

\* C18 witness: with a turn logged and a budget charged by the request
\* before, a request under a key that is not provisioned was refused.
C18_Witness ==
    \E r \in Reqs :
        /\ req[r].api_key = BadKey /\ req[r].pc = "done" /\ req[r].status = 400
        /\ responses # {}
        /\ req[r].before.charged >= 1

\* C19: a request accepted for relaying takes one request from the budget of
\* its key: with no time passing, once the first request of a run has been
\* accepted its key holds max_requests - 1 requests.
C19_RequestCharged ==
    \A r \in Reqs :
        LET rec == req[r]
        IN  (/\ served = 1 /\ now = 0
             /\ rec.evaluated /\ rec.status # 429)
            => API_KEYS[rec.api_key].requests = max_requests - 1

\* C20: when the charge for a content chunk fails while draining, the handler
\* leaves the loop for the logging of the turn, and from then on consumes no
\* further upstream chunk, streaming or batched.
C20_StopOnExhaustion ==
    [][\A r \in Reqs :
         /\ (req[r].pc = "draining" /\ req'[r].finish_reason = "length")
                => /\ req'[r].pc \in {"finalizing", "done"}
                   /\ req'[r].pulled = req[r].pulled + 1
                   /\ req'[r].pc = "done" => req'[r].inserted = 1
         /\ (req[r].pc # "done" /\ req[r].finish_reason = "length")
                => /\ req'[r].pulled = req[r].pulled
                   /\ req'[r] # req[r] => (req'[r].pc = "done" /\ req'[r].inserted = 1)]_vars

\* C20 witness: a streaming request that followed a charged request on its
\* key was truncated with chunks of the upstream still to come.
C20_Witness ==
    \E r \in Reqs :
        /\ req[r].pc = "done" /\ req[r].finish_reason = "length"
        /\ req[r].pulled < MaxChunks
        /\ req[r].is_stream /\ req[r].before.charged >= 1
        /\ req[r].before.api_key = req[r].api_key
        /\ \E h \in transcripts : h.api_key = req[r].api_key /\ h.complete

\* C21: while draining, one token is charged for each content-bearing chunk
\* accepted and none for a chunk without content; a request that finishes
\* with "stop", no time passing, leaves its key lower by as many tokens as
\* the upstream had content-bearing chunks; and content is appended to the
\* accumulated message only for the chunks whose charge succeeded.
C21_TokenCharging ==
    \A r \in Reqs :
        LET rec == req[r]
        IN  /\ rec.debited <= rec.token_count
            /\ rec.token_count <= rec.pulled
            /\ (/\ rec.pc = "done" /\ rec.status = 200
                 /\ rec.finish_reason = "stop" /\ now = rec.t_eval)
                    => /\ rec.debited = rec.token_count
                       /\ API_KEYS[rec.api_key].tokens
                             = rec.seen_tokens - Hour * rec.token_count
            /\ Len(rec.chunks) = rec.debited

\* The positions of the chunk frames marked "length" among the chunk frames
Marked(rec) ==
    {i \in 1..Len(ChunkFrames(rec)) : ChunkFrames(rec)[i].finish_reason = "length"}

\* C22: the finish reason of a turn is "length" if and only if the charge for
\* a content chunk failed while draining, and "stop" otherwise; a batched
\* reply carries it, and a stream carries "length" on one chunk forwarded,
\* the last, when the turn was truncated, and on none otherwise.
C22_FinishReason ==
    \A r \in Reqs :
        LET rec == req[r]
        IN  /\ rec.finish_reason \in {"stop", "length"}
            /\ rec.finish_reason = "length" <=> rec.debited < rec.token_count
            /\ (rec.pc = "done" /\ rec.status = 200 /\ ~rec.is_stream)
                    => rec.reply.finish_reason = rec.finish_reason
            /\ rec.is_stream =>
                    Marked(rec) = IF rec.finish_reason = "length"
                                  THEN {Len(ChunkFrames(rec))} ELSE {}

\* C22 witness: a stream that forwarded a charged chunk and then the chunk
\* on which the charge failed, which alone is marked "length".
C22_Witness ==
    \E r \in Reqs :
        /\ req[r].is_stream /\ req[r].pc = "done" /\ req[r].status = 200
        /\ req[r].debited = 1 /\ req[r].token_count = 2
        /\ Marked(req[r]) = {2}

\* C23: in a streaming request the row for the turn is inserted before
\* [DONE] is written: whenever a stream holds [DONE], the conversation with
\* the turn the stream carried is in the table, so that a request that
\* follows with that turn passes validation.
C23_LogBeforeClose ==
    \A r \in Reqs :
        LET rec == req[r]
        IN  (rec.is_stream /\ DonePositions(rec) # {})
            => /\ rec.inserted >= 1
               /\ LoggedRow(rec, StreamedContent(rec.out)) \in responses

\* C24: x-ratelimit-reset-tokens is the number of seconds the key needs to
\* refill to max_tokens at max_tokens / 3600 tokens per second: 0 for a full
\* budget, and the deficit divided by the rate, to the second, otherwise.
C24_ResetTokens ==
    \A r \in Reqs :
        LET rec     == req[r]
            deficit == max_tokens * Hour - rec.seen_tokens    \* in 1/Hour tokens
            seconds == rec.headers.reset_tokens
        IN  rec.evaluated =>
            /\ deficit = 0 => seconds = 0
            /\ seconds * max_tokens > deficit - max_tokens
            /\ seconds * max_tokens < deficit + max_tokens

\* The positions of the assistant messages of a list
Assistant(messages) ==
    {i \in 1..Len(messages) : Get(messages[i], "role") = "assistant"}

\* The transcript h is that of a request under the key and persona of rec
\* that completed with the first i messages of rec's list as its conversation
LoggedUnder(h, rec, i) ==
    /\ h.complete
    /\ h.api_key = rec.api_key /\ h.model = rec.model
    /\ Append(h.sent, Msg("assistant", h.turn)) = SubSeq(rec.sent, 1, i)

\* C25: a request passes validation only if every prefix of its list that
\* ends in an assistant message was logged by a request under the same key
\* and the same persona; a turn logged under another key or another persona
\* does not let it pass.
C25_KeyPersonaIsolation ==
    \A r \in Reqs :
        LET rec == req[r]
        IN  rec.upstream.opened =>
                \A i \in Assistant(rec.sent) :
                    \E h \in transcripts : LoggedUnder(h, rec, i)

\* C25 witness: a turn received under one key was sent again under the
\* other key, same persona, and refused at that turn.
C25_Witness ==
    \E r \in Reqs : \E h \in transcripts :
        /\ h.complete /\ h.turn # ""
        /\ h.api_key # req[r].api_key /\ h.model = req[r].model
        /\ req[r].api_key \in Keys
        /\ req[r].sent = Append(h.sent, Msg("assistant", h.turn))
        /\ req[r].pc = "done" /\ req[r].status = 400
        /\ req[r].checked = Len(req[r].sent)

\* C26: for a request that has logged its turn, the assistant content in
\* the row is the content delivered to the client (the content of the chunks
\* forwarded, joined in order, or message.content of the batched reply), and
\* the conversation in the row is the client's messages followed by that one
\* assistant message, without the system prompt.
C26_LoggedEqualsDelivered ==
    \A r \in Reqs :
        LET rec == req[r]
        IN  (rec.pc = "done" /\ rec.inserted >= 1) =>
            /\ rec.messages = Append(rec.sent, Msg("assistant", Delivered(rec)))
            /\ InsertedRow(rec) = LoggedRow(rec, Delivered(rec))
            /\ InsertedRow(rec) \in responses

\* C26 witness: a conversation continued from a turn received was streamed
\* to its end and logged with a turn of two chunks.
C26_Witness ==
    \E r \in Reqs :
        /\ req[r].pc = "done" /\ req[r].inserted = 1 /\ req[r].is_stream
        /\ req[r].finish_reason = "stop"
        /\ Len(req[r].sent) = 3
        /\ Delivered(req[r]) = FirstContent(2)

\* C27: with a finite upstream and a client that stays connected, a request
\* that entered the relay ends in a response (200, 429, the upstream's error
\* or 500); and the loop takes each upstream chunk once: the chunks it holds
\* are the first content-bearing chunks of the stream, each once, in order.
C27_Termination ==
    /\ \A r \in Reqs :
          (req[r].pc \notin {"idle", "done"})
            ~> (req[r].pc = "done" /\ req[r].status \in {200, 429, 503, 500})
    /\ [](\A r \in Reqs :
            /\ req[r].chunks = SubSeq(Content, 1, Len(req[r].chunks))
            /\ Len(req[r].chunks) <= req[r].pulled
            /\ req[r].pulled <= MaxChunks)

\* C27 witness: a request drained the whole of an upstream stream of
\* MaxChunks chunks, one of them without content, and was answered 200.
C27_Witness ==
    \E r \in Reqs :
        /\ req[r].pc = "done" /\ req[r].status = 200
        /\ req[r].pulled = MaxChunks
        /\ req[r].token_count = MaxChunks - 1
        /\ req[r].finish_reason = "stop"

====
